---------------------------- MODULE Spec2Model ----------------------------
(***************************************************************************)
(* A model of the Matrix<T> value type of src/src/main.rs: the three       *)
(* constructors (zeroes, ones, new), the arithmetic operators (add, mul,   *)
(* hadamard) and the Display implementation (fmt).                         *)
(*                                                                         *)
(* A matrix is a record [rows, columns, contents]; contents is the flat    *)
(* Vec<T>, a 1-based sequence here (index i of the source is i + 1).       *)
(* Element values are natural numbers: the integral f64 values of the      *)
(* source's main, whose Display text is their decimal digits.              *)
(* A call that panics ends with status "panic"; the values moved into it   *)
(* are dropped and the program ends.                                       *)
(***************************************************************************)
EXTENDS Integers, Sequences, FiniteSets

VARIABLES cur, depth, last

vars == <<cur, depth, last>>

\* Largest number of rows / of columns a constructor is called with.
MaxDim == 2
\* Largest number of elements handed to Matrix::new.
MaxLen == 2
\* Largest number of arithmetic operations chained on one matrix.
MaxOps == 2

\* Element values handed to Matrix::new.
Elems == {7, 10}

Dims == 0..MaxDim

ElemSeqs == UNION {[1..n -> Elems] : n \in 0..MaxLen}

\* Element values of the second operand of an arithmetic call.
OperandElems == {3}

OperandSeqs == UNION {[1..n -> OperandElems] : n \in 0..MaxLen}

\* T::default(): 0 for the numeric types.
DefaultT == 0

\* The characters of the rendering.  The box-drawing glyphs of the source
\* (U+250C, U+2510, U+2514, U+2518, U+2502) are named by tokens.
TopLeft == "tl"
TopRight == "tr"
BottomLeft == "bl"
BottomRight == "br"
Edge == "v"
Space == " "
Newline == "\n"

Matrix(r, c, v) == [rows |-> r, columns |-> c, contents |-> v]

\* vec![x; n]
Filled(n, x) == [i \in 1..n |-> x]

\* A finished call: what was called, with what, and how it ended.
\*   a, b     the operand matrices (each a sequence of zero or one matrix)
\*   args     the scalar arguments <<rows, columns>> of a constructor
\*   elements the elements handed to new
\*   status   "ok" or "panic"
\*   kind     the failure: "ShapeOverflow" (the assert of new),
\*            "DimensionMismatch" (the assert of add, mul, hadamard),
\*            "OutOfRange" (an index or a slice out of range), or "none"
\*   msg      the panic message: its fixed text and the numbers it prints
\*   result   the matrix returned (a sequence of zero or one matrix)
\*   built    the number of result elements built when the call ended
\*   text     the characters written by fmt
Call(op, a, b, args, elements, status, kind, msg, result, built, text) ==
    [op |-> op, a |-> a, b |-> b, args |-> args, elements |-> elements,
     status |-> status, kind |-> kind, msg |-> msg, result |-> result,
     built |-> built, text |-> text]

NoMsg == [text |-> "", nums |-> <<>>]

\* The outcome of an operation: a status, a failure kind, a message, the
\* value returned and the number of result elements built.
Ok(m, n) == [status |-> "ok", kind |-> "none", msg |-> NoMsg,
             result |-> <<m>>, built |-> n]

Panic(kind, msg, n) == [status |-> "panic", kind |-> kind, msg |-> msg,
                        result |-> <<>>, built |-> n]

----------------------------------------------------------------------------
(* Construction *)

zeroes(rows, columns) == Ok(Matrix(rows, columns, Filled(rows * columns, 0)), rows * columns)

ones(rows, columns) == Ok(Matrix(rows, columns, Filled(rows * columns, 1)), rows * columns)

\* A resize that puts the defaults before the elements instead of after them.
ResizeWithInFront(elements, n) ==
    [i \in 1..n |-> IF i <= n - Len(elements) THEN DefaultT
                    ELSE elements[i - (n - Len(elements))]]

\* elements.resize_with(n, Default::default): truncate to n, or append defaults.
ResizeWith(elements, n) ==
    [i \in 1..n |-> IF i <= Len(elements) THEN elements[i] ELSE DefaultT]

\* An assert of new that is off by one: a full matrix counts as too many.
NewFitsStrictly(rows, columns, elements) == Len(elements) < rows * columns

\* The condition of the assert of new.
NewFits(rows, columns, elements) == Len(elements) <= rows * columns

new(rows, columns, elements) ==
    IF ~NewFits(rows, columns, elements)
    THEN Panic("ShapeOverflow",
               [text |-> "elements were given, but a matrix can only hold",
                nums |-> <<Len(elements), rows, columns, rows * columns>>], 0)
    ELSE Ok(Matrix(rows, columns, ResizeWith(elements, rows * columns)),
            rows * columns)

----------------------------------------------------------------------------
(* Arithmetic *)

\* The element operations of T.
AddT(x, y) == x + y

MulT(x, y) == x * y

\* A dimension check that forgets the rows.
SameColumns(self, o) == self.columns = o.columns

\* The condition of the assert of add and of hadamard.
SameDimension(self, o) == self.columns = o.columns /\ self.rows = o.rows

\* A dimension check of mul that compares the wrong pair.
MultiplicableByColumns(self, o) == self.columns = o.columns

\* The condition of the assert of mul.
Multiplicable(self, o) == self.columns = o.rows

\* for i in 0..self.contents.len() { result.push(self.contents[i] + o.contents[i]) }
\* from index i on (i counts as the source does, from 0), result built so far.
\* o.contents[i] panics when o holds no element i.
RECURSIVE AddLoop(_, _, _, _)
AddLoop(self, o, i, result) ==
    IF i >= Len(self.contents)
    THEN Ok(Matrix(self.rows, self.columns, result), Len(result))
    ELSE IF i >= Len(o.contents)
         THEN Panic("OutOfRange",
                    [text |-> "index out of bounds",
                     nums |-> <<Len(o.contents), i>>], Len(result))
         ELSE AddLoop(self, o, i + 1,
                      Append(result, AddT(self.contents[i + 1], o.contents[i + 1])))

add(self, o) ==
    IF ~SameDimension(self, o)
    THEN Panic("DimensionMismatch",
               [text |-> "Can only add matrices of the same dimension.",
                nums |-> <<>>], 0)
    ELSE AddLoop(self, o, 0, <<>>)

\* for i in 0..self.contents.len() { result.push(self.contents[i] * o.contents[i]) }
RECURSIVE HadamardLoop(_, _, _, _)
HadamardLoop(self, o, i, result) ==
    IF i >= Len(self.contents)
    THEN Ok(Matrix(self.rows, self.columns, result), Len(result))
    ELSE IF i >= Len(o.contents)
         THEN Panic("OutOfRange",
                    [text |-> "index out of bounds",
                     nums |-> <<Len(o.contents), i>>], Len(result))
         ELSE HadamardLoop(self, o, i + 1,
                           Append(result, MulT(self.contents[i + 1], o.contents[i + 1])))

hadamard(self, o) ==
    IF ~SameDimension(self, o)
    THEN Panic("DimensionMismatch",
               [text |-> "Can only perform Hadamard multiplication on matrices of the same dimension.",
                nums |-> <<>>], 0)
    ELSE HadamardLoop(self, o, 0, <<>>)

\* for i in 0..self.contents.len() { result.push(); }
\* The source names no value to push ("TODO: make this work"): the loop runs
\* once per element of self and the element it pushes is unspecified, v here.
RECURSIVE MulLoop(_, _, _, _, _)
MulLoop(self, o, i, result, v) ==
    IF i >= Len(self.contents)
    THEN Ok(Matrix(self.rows, o.columns, result), Len(result))
    ELSE MulLoop(self, o, i + 1, Append(result, v), v)

mul(self, o, v) ==
    IF ~Multiplicable(self, o)
    THEN Panic("DimensionMismatch",
               [text |-> "Matrices of dimensions and aren't multiplicable.",
                nums |-> <<self.rows, self.columns, o.rows, o.columns>>], 0)
    ELSE MulLoop(self, o, 0, <<>>, v)

----------------------------------------------------------------------------
(* Display *)

DigitChars == <<"0", "1", "2", "3", "4", "5", "6", "7", "8", "9">>

\* e.to_string(), and the text "{}" writes for e: the decimal digits of e.
RECURSIVE to_string(_)
to_string(e) ==
    IF e < 10 THEN <<DigitChars[e + 1]>>
    ELSE to_string(e \div 10) \o <<DigitChars[(e % 10) + 1]>>

\* " ".repeat(n)
Repeat(ch, n) == [i \in 1..n |-> ch]

\* for e in &self.contents { let len = e.to_string().len(); if len > longest { longest = len } }
\* from index i on, with the longest length seen so far.
RECURSIVE LongestLoop(_, _, _)
LongestLoop(contents, i, longest) ==
    IF i >= Len(contents) THEN longest
    ELSE LET len == Len(to_string(contents[i + 1]))
         IN LongestLoop(contents, i + 1, IF len > longest THEN len ELSE longest)

\* A cell justified to the left ("{:<width$} ").
FormatCellLeft(e, width) ==
    LET s == to_string(e)
    IN s \o (IF Len(s) < width THEN Repeat(Space, width - Len(s)) ELSE <<>>) \o <<Space>>

\* format!("{:>width$} ", e, width = longest): the text of e, spaces before it
\* up to width characters (none when it is as long or longer), then one space.
FormatCell(e, width) ==
    LET s == to_string(e)
    IN (IF Len(s) < width THEN Repeat(Space, width - Len(s)) ELSE <<>>) \o s \o <<Space>>

\* string_reps after the loop over self.contents.iter().enumerate()
StringReps(contents, longest) ==
    [pos \in 1..Len(contents) |-> FormatCell(contents[pos], longest)]

\* strs.join(sep)
RECURSIVE Join(_, _)
Join(strs, sep) ==
    IF strs = <<>> THEN <<>>
    ELSE IF Len(strs) = 1 THEN strs[1]
    ELSE strs[1] \o sep \o Join(Tail(strs), sep)

\* format!("{}{}{}", left, " ".repeat((longest + 1) * columns), right), where left
\* is a corner and one space
Border(left, right, longest, columns) ==
    <<left, Space>> \o Repeat(Space, (longest + 1) * columns) \o <<right>>

\* A range check that refuses the empty slice.
NonEmptySliceInRange(string_reps, from, to) == from < to /\ to <= Len(string_reps)

\* string_reps[from .. to] is in range
SliceInRange(string_reps, from, to) == from <= to /\ to <= Len(string_reps)

\* ["| ", &string_reps[(i-1)*columns .. i*columns].join(""), "|"].join("")
DataRow(string_reps, i, columns) ==
    <<Edge, Space>>
    \o Join(SubSeq(string_reps, (i - 1) * columns + 1, i * columns), <<>>)
    \o <<Edge>>

\* for i in 0..self.rows + 2 { ... } from index i on, row_reps filled so far
RECURSIVE RowLoop(_, _, _, _, _)
RowLoop(self, string_reps, longest, i, row_reps) ==
    IF i >= self.rows + 2
    THEN [status |-> "ok", kind |-> "none", msg |-> NoMsg, rows |-> row_reps]
    ELSE IF i = 0
    THEN RowLoop(self, string_reps, longest, i + 1,
                 Append(row_reps, Border(TopLeft, TopRight, longest, self.columns)))
    ELSE IF i = self.rows + 1
    THEN RowLoop(self, string_reps, longest, i + 1,
                 Append(row_reps, Border(BottomLeft, BottomRight, longest, self.columns)))
    ELSE IF ~SliceInRange(string_reps, (i - 1) * self.columns, i * self.columns)
    THEN [status |-> "panic", kind |-> "OutOfRange",
          msg |-> [text |-> "range end index out of range for slice",
                   nums |-> <<i * self.columns, Len(string_reps)>>],
          rows |-> row_reps]
    ELSE RowLoop(self, string_reps, longest, i + 1,
                 Append(row_reps, DataRow(string_reps, i, self.columns)))

\* fmt: the outcome and the text written (nothing is written on a panic)
fmt(self) ==
    LET longest == LongestLoop(self.contents, 0, 0)
        string_reps == StringReps(self.contents, longest)
        done == RowLoop(self, string_reps, longest, 0, <<>>)
    IN [status |-> done.status, kind |-> done.kind, msg |-> done.msg,
        text |-> IF done.status = "ok" THEN Join(done.rows, <<Newline>>) ELSE <<>>]

----------------------------------------------------------------------------
(* The state machine: one matrix in hand (cur, a sequence of zero or one     *)
(* matrix), the number of arithmetic operations it went through (depth) and *)
(* the last call made (last).  An arithmetic operation takes the matrix in  *)
(* hand and a freshly constructed one and leaves its result in hand; both   *)
(* operands are moved into the call.                                        *)

\* The second operand of an arithmetic call: a matrix returned by zeroes, by
\* ones, or by new on at most MaxLen elements of OperandElems.
Operands ==
    {zeroes(r, c).result[1] : r \in Dims, c \in Dims}
    \cup {ones(r, c).result[1] : r \in Dims, c \in Dims}
    \cup {new(t[1], t[2], t[3]).result[1] :
            t \in {u \in Dims \X Dims \X OperandSeqs : NewFits(u[1], u[2], u[3])}}

\* The values the unspecified push of mul is drawn from.
PushVals == {DefaultT} \cup OperandElems

Init ==
    /\ cur = <<>>
    /\ depth = 0
    /\ last = Call("none", <<>>, <<>>, <<>>, <<>>, "ok", "none", NoMsg, <<>>, 0, <<>>)

Constructed(op, rows, columns, elements, out) ==
    /\ cur' = out.result
    /\ depth' = 0
    /\ last' = Call(op, <<>>, <<>>, <<rows, columns>>, elements, out.status,
                    out.kind, out.msg, out.result, out.built, <<>>)

\* A program starts by constructing a matrix; a panic ends it.
Zeroes ==
    /\ cur = <<>>
    /\ last.status # "panic"
    /\ \E rows \in Dims, columns \in Dims :
         Constructed("zeroes", rows, columns, <<>>, zeroes(rows, columns))

Ones ==
    /\ cur = <<>>
    /\ last.status # "panic"
    /\ \E rows \in Dims, columns \in Dims :
         Constructed("ones", rows, columns, <<>>, ones(rows, columns))

New ==
    /\ cur = <<>>
    /\ last.status # "panic"
    /\ \E rows \in Dims, columns \in Dims, elements \in ElemSeqs :
         Constructed("new", rows, columns, elements, new(rows, columns, elements))

Computed(op, self, o, out) ==
    /\ cur' = out.result
    /\ depth' = depth + 1
    /\ last' = Call(op, <<self>>, <<o>>, <<>>, <<>>, out.status, out.kind,
                    out.msg, out.result, out.built, <<>>)

Add ==
    /\ cur # <<>>
    /\ depth < MaxOps
    /\ \E x \in Operands :
         Computed("add", cur[1], x, add(cur[1], x))

Mul ==
    /\ cur # <<>>
    /\ depth < MaxOps
    /\ \E x \in Operands, v \in PushVals :
         Computed("mul", cur[1], x, mul(cur[1], x, v))

Hadamard ==
    /\ cur # <<>>
    /\ depth < MaxOps
    /\ \E x \in Operands :
         Computed("hadamard", cur[1], x, hadamard(cur[1], x))

Fmt ==
    /\ cur # <<>>
    /\ last.op # "fmt"
    /\ LET out == fmt(cur[1])
       IN last' = Call("fmt", cur, <<>>, <<>>, <<>>, out.status, out.kind,
                       out.msg, <<>>, 0, out.text)
    /\ UNCHANGED <<cur, depth>>

Next == Zeroes \/ Ones \/ New \/ Add \/ Mul \/ Hadamard \/ Fmt

Spec == Init /\ [][Next]_vars

----------------------------------------------------------------------------
(* Properties *)

\* The shape invariant of a matrix.
ShapeOk(m) == Len(m.contents) = m.rows * m.columns

Shape(m) == <<m.rows, m.columns>>

\* The operands of the last arithmetic call.
A == last.a[1]

B == last.b[1]

\* The matrix the last call returned.
R == last.result[1]

\* C1: every matrix returned by zeroes, ones, new, add, mul or hadamard has
\* contents.length = rows * columns.
C1_ShapeInvariant ==
    (last.status = "ok" /\ last.result # <<>>) => ShapeOk(R)

\* The constructors return matrices that satisfy the shape invariant, and so
\* do add and hadamard on operands that satisfy it: of the six operations of
\* C1, only mul breaks it.
ShapeInvariantExceptMul ==
    /\ (last.op \in {"zeroes", "ones", "new"} /\ last.status = "ok") => ShapeOk(R)
    /\ (last.op \in {"add", "hadamard"} /\ last.status = "ok"
          /\ ShapeOk(A) /\ ShapeOk(B)) => ShapeOk(R)

\* The sum over k = from .. inner-1, in ascending k, of a[r,k] * b[k,c], added to acc.
RECURSIVE DotProduct(_, _, _, _, _, _)
DotProduct(a, b, r, c, from, acc) ==
    IF from >= a.columns THEN acc
    ELSE DotProduct(a, b, r, c, from + 1,
                    acc + a.contents[r * a.columns + from + 1]
                          * b.contents[from * b.columns + c + 1])

\* C2: mul of A and B with A.columns = B.rows (both satisfying the shape
\* invariant) returns a matrix of A.rows by B.columns whose element at flat
\* index r * B.columns + c is the sum over k, ascending from the additive
\* identity, of A[r,k] * B[k,c].
C2_MulIsDotProduct ==
    (last.op = "mul" /\ ShapeOk(A) /\ ShapeOk(B) /\ A.columns = B.rows)
    => /\ last.status = "ok"
       /\ R.rows = A.rows
       /\ R.columns = B.columns
       /\ Len(R.contents) = A.rows * B.columns
       /\ \A r \in 0..(A.rows - 1), c \in 0..(B.columns - 1) :
            R.contents[r * B.columns + c + 1] = DotProduct(A, B, r, c, 0, 0)

\* C3: new with elements.length <= rows * columns returns a matrix of the given
\* rows and columns whose first elements.length contents are the elements in
\* order and whose other contents, up to rows * columns, are the default value.
C3_NewPads ==
    (last.op = "new" /\ Len(last.elements) <= last.args[1] * last.args[2])
    => /\ last.status = "ok"
       /\ R.rows = last.args[1]
       /\ R.columns = last.args[2]
       /\ Len(R.contents) = last.args[1] * last.args[2]
       /\ \A i \in 1..Len(R.contents) :
            R.contents[i] = IF i <= Len(last.elements) THEN last.elements[i] ELSE 0

C3_Witness ==
    /\ last.op = "new"
    /\ last.status = "ok"
    /\ Len(last.elements) >= 2
    /\ last.elements[1] # last.elements[2]
    /\ Len(last.elements) < last.args[1] * last.args[2]

\* C4: new fails with ShapeOverflow exactly when elements.length > rows * columns,
\* and then returns no matrix and has built nothing.
C4_NewOverflow ==
    last.op = "new"
    => /\ (last.status = "panic") = (Len(last.elements) > last.args[1] * last.args[2])
       /\ last.status = "panic"
          => /\ last.kind = "ShapeOverflow"
             /\ last.result = <<>>
             /\ last.built = 0
             /\ cur = <<>>

C4_Witness ==
    /\ last.op = "new"
    /\ last.status = "panic"
    /\ last.args[1] * last.args[2] > 0
    /\ Len(last.elements) = last.args[1] * last.args[2] + 1

\* The element operation of an elementwise call.
Combine(op, x, y) == IF op = "add" THEN x + y ELSE x * y

\* The result of the elementwise operation op on same-shaped A and B: same rows
\* and columns, the combination of the operands' elements at every flat index.
Pairwise(op) ==
    /\ last.status = "ok"
    /\ R.rows = A.rows
    /\ R.columns = A.columns
    /\ \A i \in 1..(A.rows * A.columns) :
         /\ i \in DOMAIN R.contents
         /\ i \in DOMAIN A.contents
         /\ i \in DOMAIN B.contents
         /\ R.contents[i] = Combine(op, A.contents[i], B.contents[i])

\* C5: add of A and B with equal rows and equal columns returns a matrix of
\* those rows and columns whose element at every flat index i in
\* 0 .. rows*columns-1 is A.contents[i] + B.contents[i].
C5_AddPairwise ==
    (last.op = "add" /\ A.rows = B.rows /\ A.columns = B.columns)
    => Pairwise("add")

\* add and hadamard on same-shaped operands that satisfy the shape invariant
\* return the pairwise sums and products: C5 and C8 fail only on an operand
\* returned by mul.
PairwiseOnShapedOperands ==
    (last.op \in {"add", "hadamard"} /\ Shape(A) = Shape(B)
       /\ ShapeOk(A) /\ ShapeOk(B))
    => (Pairwise(last.op) /\ ShapeOk(R))

\* The last call failed on its dimension check before building anything.
FailedOnDimensions ==
    /\ last.status = "panic"
    /\ last.kind = "DimensionMismatch"
    /\ last.built = 0
    /\ last.result = <<>>
    /\ cur = <<>>

ReportsBothShapes == last.msg.nums = Shape(A) \o Shape(B)

\* C6, as stated: add of A and B with different rows or different columns
\* fails with a DimensionMismatch that reports both shapes, before any result
\* element is computed.
C6_AddMismatchReportsShapes ==
    (last.op = "add" /\ Shape(A) # Shape(B))
    => (FailedOnDimensions /\ ReportsBothShapes)

\* C6, amended: add of A and B with different rows or different columns fails
\* with a DimensionMismatch whose message is a fixed text naming no shape,
\* before any result element is computed, and returns no matrix.
C6_AddMismatchFails ==
    (last.op = "add" /\ Shape(A) # Shape(B))
    => (FailedOnDimensions /\ last.msg.nums = <<>>)

C6_Witness ==
    /\ last.op = "add"
    /\ A.columns = B.columns
    /\ A.rows # B.rows
    /\ A.contents # <<>>
    /\ last.status = "panic"

\* C7: mul fails with a DimensionMismatch reporting both shapes exactly when
\* A.columns # B.rows, before any result element is built.
C7_MulMismatch ==
    last.op = "mul"
    => /\ (last.status = "panic") = (A.columns # B.rows)
       /\ last.status = "panic" => (FailedOnDimensions /\ ReportsBothShapes)

C7_Witness ==
    /\ last.op = "mul"
    /\ Shape(A) = Shape(B)
    /\ A.rows # A.columns
    /\ A.contents # <<>>
    /\ last.status = "panic"

\* C8: hadamard of same-shaped A and B returns a matrix of that shape whose
\* element at every flat index i is A.contents[i] * B.contents[i]; on different
\* shapes it fails with DimensionMismatch and returns no matrix.
C8_HadamardPairwise ==
    last.op = "hadamard"
    => IF Shape(A) = Shape(B) THEN Pairwise("hadamard") ELSE FailedOnDimensions

\* The lines of a text: the runs of characters between its newlines.
RECURSIVE Split(_, _, _)
Split(text, i, acc) ==
    IF i > Len(text) THEN acc
    ELSE IF text[i] = Newline THEN Split(text, i + 1, Append(acc, <<>>))
    ELSE Split(text, i + 1, [acc EXCEPT ![Len(acc)] = Append(@, text[i])])

Lines(text) == Split(text, 1, << <<>> >>)

Spaces(n) == [k \in 1..n |-> Space]

\* W: the largest rendered length over the elements of m (0 without elements).
Widest(m) ==
    IF m.contents = <<>> THEN 0
    ELSE LET lens == {Len(to_string(m.contents[i])) : i \in DOMAIN m.contents}
         IN CHOOSE w \in lens : \A l \in lens : l <= w

\* Character k of the cell of element e at width W: the text of e after
\* W - length spaces, then one space.
CellChar(e, W, k) ==
    LET s == to_string(e)
    IN IF k = W + 1 \/ k <= W - Len(s) THEN Space ELSE s[k - (W - Len(s))]

\* The cells of row i (from 0) of m at width W, one after the other.
RowCells(m, W, i) ==
    [k \in 1..(m.columns * (W + 1)) |->
        CellChar(m.contents[i * m.columns + ((k - 1) \div (W + 1)) + 1], W,
                 ((k - 1) % (W + 1)) + 1)]

IsEmpty(m) == m.rows = 0 \/ m.columns = 0

\* C10, as stated: formatting an empty matrix (rows = 0 or columns = 0, shape
\* invariant holding) goes out of range nowhere and writes a top and a bottom
\* border of zero-width interior, and one edge-only line per row.
C10_FmtEmptyZeroWidth ==
    (last.op = "fmt" /\ ShapeOk(A) /\ IsEmpty(A))
    => /\ last.status = "ok"
       /\ LET lines == Lines(last.text)
          IN /\ Len(lines) = A.rows + 2
             /\ lines[1] = <<TopLeft, Space, TopRight>>
             /\ lines[A.rows + 2] = <<BottomLeft, Space, BottomRight>>
             /\ \A i \in 2..(A.rows + 1) : lines[i] = <<Edge, Space, Edge>>

\* C10, amended: formatting an empty matrix goes out of range nowhere and
\* writes a top and a bottom border whose interior is columns spaces
\* (W = 0: none when columns = 0, columns of them when rows = 0 < columns),
\* and one edge-only line per row.
C10_FmtEmpty ==
    (last.op = "fmt" /\ ShapeOk(A) /\ IsEmpty(A))
    => /\ last.status = "ok"
       /\ last.kind # "OutOfRange"
       /\ LET lines == Lines(last.text)
          IN /\ Len(lines) = A.rows + 2
             /\ lines[1] = <<TopLeft, Space>> \o Spaces(A.columns) \o <<TopRight>>
             /\ lines[A.rows + 2]
                  = <<BottomLeft, Space>> \o Spaces(A.columns) \o <<BottomRight>>
             /\ \A i \in 2..(A.rows + 1) : lines[i] = <<Edge, Space, Edge>>

C10_WitnessNoColumns ==
    /\ last.op = "fmt"
    /\ last.status = "ok"
    /\ ShapeOk(A)
    /\ A.rows > 0
    /\ A.columns = 0

C10_Witness ==
    /\ last.op = "fmt"
    /\ last.status = "ok"
    /\ ShapeOk(A)
    /\ A.rows = 0
    /\ A.columns > 0

============================================================================
